---- MODULE Spec2Model ----
(***************************************************************************)
(* Session authentication of the calibration backend: the cookie-carried   *)
(* signed token, the two authentication gates (app.js and                  *)
(* middleware/auth.js), the role gate, the auth endpoints and the routes   *)
(* mounted behind the gates (/protected, /users, /products).               *)
(***************************************************************************)
EXTENDS Integers, FiniteSets, Sequences, TLC

(* ------------------------------ bounds --------------------------------- *)
\* the clock runs from 0 to MaxTime
MaxTime == 1

(* ------------------------- program constants --------------------------- *)
\* jwt.sign(..., { expiresIn: '24h' }): the validity window, in clock ticks
TokenTTL == 1
\* COOKIE_MAX_AGE: 24h, in clock ticks
COOKIE_MAX_AGE == 1
COOKIE_NAME == "session"

(* ------------------------------ values --------------------------------- *)
\* JavaScript's null / undefined
Null == [null |-> TRUE]
IsNull(x) == "null" \in DOMAIN x
\* a cookie value jwt.verify cannot parse
Malformed == [malformed |-> TRUE]

\* c1 is a browser that uses every route; c2 is the browser of the operator
\* who signs in as the seeded admin and changes the roles of accounts
Browser == "c1"
Operator == "c2"
Clients == {Browser, Operator}
Roles == {"user", "admin"}
Envs == {"production", "development"}

\* Absent is a field left out of a request body or query
Absent == "<absent>"
Field(body, k) == IF k \in DOMAIN body THEN body[k] ELSE Absent

\* request bodies of POST /auth/signup
SignupBodies ==
  { [email |-> "b@x.com", username |-> "bob", password |-> "pw2",
     mobile |-> "555"],
    [email |-> "n@x.com", username |-> "nan", password |-> "pw3",
     mobile |-> "555"],
    [email |-> "b@x.com", username |-> "bob", password |-> "pw2"] }
\* request bodies of POST /auth/login, per client
LoginBodies(c) ==
  IF c = Operator THEN { [email |-> "a@x.com", password |-> "pw1"] }
  ELSE { [email |-> "b@x.com", password |-> "pw2"],
         [email |-> "b@x.com", password |-> "pw1"],
         [email |-> "n@x.com", password |-> "pw3"],
         [password |-> "pw2"] }
\* request bodies of POST /users
CreateBodies ==
  { [email |-> "n@x.com", username |-> "nan", password |-> "pw3",
     role |-> "admin", mobile |-> "555"],
    [email |-> "a@x.com", username |-> "al", password |-> "pw1"],
    [email |-> "n@x.com", username |-> "nan"] }
\* request bodies of PUT /users/:id, per client
UpdateBodies(c) ==
  { [role |-> "admin"], [role |-> "user"] } \cup
  IF c = Operator THEN {}
  ELSE { [email |-> "a@x.com"],
         [username |-> "carol", mobile |-> "555", password |-> "pw2"] }
\* _id values a request can name: the second seeded account and an unknown id
UserIdsIn == {2, 9}
\* name, ?owner= and uploaded file of the product routes
ProductInputs ==
  { [name |-> "gauge", owner |-> "1", file |-> "f1"],
    [owner |-> "1"],
    [name |-> "gauge"] }
ProductIds == {1}
\* where a request can fail with an infrastructure fault
Faults == {"none", "gate", "store"}

Present(v) == v /= Absent

(* ------------------------------ bcryptjs ------------------------------- *)
\* bcrypt.hash(password, salt): a one-way image of the password
bcryptHash(password) == <<"$2a$10$", password>>
\* bcrypt.compare(password, hash)
bcryptCompare(password, hash) == hash = bcryptHash(password)

(* ----------------------------- the store ------------------------------- *)
\* the accounts the database holds when the server starts
SeedUsers ==
  (1 :> [_id |-> 1, email |-> "a@x.com", username |-> "alice",
         passwordHash |-> bcryptHash("pw1"), mobile |-> "555",
         role |-> "admin", company |-> "co1", createdAt |-> 0]) @@
  (2 :> [_id |-> 2, email |-> "b@x.com", username |-> "bob",
         passwordHash |-> bcryptHash("pw2"), mobile |-> "555",
         role |-> "user", company |-> "co1", createdAt |-> 0])

\* UserSchema: the required paths and the role enum, checked by save()
UserSchemaValid(doc) ==
  /\ "email" \in DOMAIN doc /\ Present(doc.email)
  /\ "username" \in DOMAIN doc /\ Present(doc.username)
  /\ "passwordHash" \in DOMAIN doc
  /\ "company" \in DOMAIN doc
  /\ doc.role \in Roles

\* the document new User(fields) builds: schema defaults for role, createdAt
NewUser(id, fields, t) ==
  [_id |-> id, createdAt |-> t] @@ fields @@ [role |-> "user"]

\* mutant: a store without the unique index on email
EmailTaken_NoIndex(store, email, exceptId) == FALSE

\* the unique index on email
EmailTaken(store, email, exceptId) ==
  \E i \in DOMAIN store : i /= exceptId /\ store[i].email = email

\* User.findOne({ email })
findOneByEmail(store, email) ==
  IF \E i \in DOMAIN store : store[i].email = email
  THEN store[CHOOSE i \in DOMAIN store : store[i].email = email]
  ELSE Null

WithoutFields(doc, fs) == [k \in DOMAIN doc \ fs |-> doc[k]]

\* mutant: the lookup without .select('-passwordHash')
findByIdSafe_WithHash(store, id) ==
  IF id \in DOMAIN store THEN store[id] ELSE Null

\* User.findById(id).select('-passwordHash').lean()
findByIdSafe(store, id) ==
  IF id \in DOMAIN store THEN WithoutFields(store[id], {"passwordHash"})
  ELSE Null

(* --------------------------- token codec ------------------------------- *)
\* jwt.sign({ uid, role, username }, SESSION_SECRET, { expiresIn: '24h' })
jwtSign(claims, t) ==
  claims @@ [sig |-> "SESSION_SECRET", iat |-> t, exp |-> t + TokenTTL]

\* jwt.verify(token, SESSION_SECRET): the payload, or Null when it throws
jwtVerify(token, t) ==
  IF token = Malformed THEN Null
  ELSE IF token.sig /= "SESSION_SECRET" THEN Null
  ELSE IF t >= token.exp THEN Null
  ELSE WithoutFields(token, {"sig"})

\* tokens a client can put in its cookie jar by hand
ForgedTokens ==
  { Malformed,
    [uid |-> 2, role |-> "admin", username |-> "bob", sig |-> "other",
     iat |-> 0, exp |-> MaxTime + TokenTTL + 1],
    [role |-> "admin", username |-> "bob", sig |-> "SESSION_SECRET",
     iat |-> 0, exp |-> MaxTime + TokenTTL + 1] }

(* ------------------------- cookie manager ------------------------------ *)
\* mutant: cookie options that do not look at the environment
cookieOptions_AlwaysLax(nodeEnv) ==
  [httpOnly |-> TRUE, secure |-> FALSE, sameSite |-> "Lax",
   maxAge |-> COOKIE_MAX_AGE, path |-> "/"]

\* cookieOptions() of routes/auth.js
cookieOptions(nodeEnv) ==
  LET isProd == nodeEnv = "production" IN
  [httpOnly |-> TRUE, secure |-> isProd,
   sameSite |-> IF isProd THEN "None" ELSE "Lax",
   maxAge |-> COOKIE_MAX_AGE, path |-> "/"]

\* res.cookie(COOKIE_NAME, token, cookieOptions())
SetCookie(token, nodeEnv) ==
  [op |-> "set", name |-> COOKIE_NAME, value |-> token,
   options |-> cookieOptions(nodeEnv)]
\* res.clearCookie(COOKIE_NAME, { path: '/' })
ClearCookie == [op |-> "clear", name |-> COOKIE_NAME, path |-> "/"]

\* what the client's cookie jar holds after a response
ApplyCookie(jar, cookieOp) ==
  IF IsNull(cookieOp) THEN jar
  ELSE IF cookieOp.op = "set" THEN cookieOp.value
  ELSE Null

(* ------------------------------ gates ---------------------------------- *)
\* a gate's result: it answers (next = FALSE) or calls next() with req.user
Stop(status, body, cookieOp) ==
  [next |-> FALSE, status |-> status, body |-> body, cookie |-> cookieOp,
   user |-> Null, faulted |-> FALSE]
Pass(user) ==
  [next |-> TRUE, status |-> 200, body |-> Null, cookie |-> Null,
   user |-> user, faulted |-> FALSE]
\* the answer of a catch block that caught an infrastructure fault
Caught(status, body, cookieOp, user) ==
  [next |-> FALSE, status |-> status, body |-> body, cookie |-> cookieOp,
   user |-> user, faulted |-> TRUE]
Err(msg) == [error |-> msg]

\* requireAuth of app.js: trusts the verified payload
AppRequireAuth(token, t) ==
  IF IsNull(token) THEN Stop(401, Err("Not authenticated"), Null)
  ELSE IF IsNull(jwtVerify(token, t))
       THEN Stop(401, Err("Invalid or expired session"), Null)
       ELSE Pass(jwtVerify(token, t))

\* mutant: a gate whose catch block clears the cookie
requireAuth_ClearsOnFault(token, store, t, fault) ==
  IF IsNull(token) THEN Stop(401, Err("Not authenticated"), Null)
  ELSE LET payload == jwtVerify(token, t) IN
    IF IsNull(payload)
    THEN Stop(401, Err("Invalid or expired session"), ClearCookie)
    ELSE IF "uid" \notin DOMAIN payload
    THEN Stop(401, Err("Invalid session payload"), ClearCookie)
    ELSE IF fault
    THEN Caught(401, Err("Authentication error"), ClearCookie, Null)
    ELSE IF IsNull(findByIdSafe(store, payload.uid))
    THEN Stop(401, Err("Session user not found"), ClearCookie)
    ELSE Pass(findByIdSafe(store, payload.uid))

\* mutant: a gate that reads the account store before it verifies the token
requireAuth_ReadsFirst(token, store, t, fault) ==
  IF IsNull(token) THEN Stop(401, Err("Not authenticated"), Null)
  ELSE IF fault THEN Caught(401, Err("Authentication error"), Null, Null)
  ELSE LET payload == jwtVerify(token, t) IN
    IF IsNull(payload)
    THEN Stop(401, Err("Invalid or expired session"), ClearCookie)
    ELSE IF "uid" \notin DOMAIN payload
    THEN Stop(401, Err("Invalid session payload"), ClearCookie)
    ELSE IF IsNull(findByIdSafe(store, payload.uid))
    THEN Stop(401, Err("Session user not found"), ClearCookie)
    ELSE Pass(findByIdSafe(store, payload.uid))

\* requireAuth of middleware/auth.js: loads the account on every request;
\* fault = the store lookup throws
requireAuth(token, store, t, fault) ==
  IF IsNull(token) THEN Stop(401, Err("Not authenticated"), Null)
  ELSE LET payload == jwtVerify(token, t) IN
    IF IsNull(payload)
    THEN Stop(401, Err("Invalid or expired session"), ClearCookie)
    ELSE IF "uid" \notin DOMAIN payload
    THEN Stop(401, Err("Invalid session payload"), ClearCookie)
    ELSE IF fault THEN Caught(401, Err("Authentication error"), Null, Null)
    ELSE IF IsNull(findByIdSafe(store, payload.uid))
    THEN Stop(401, Err("Session user not found"), ClearCookie)
    ELSE Pass(findByIdSafe(store, payload.uid))

\* mutant: a role gate with a hierarchy, where an admin passes every gate
requireRole_Hierarchy(role, user) ==
  IF IsNull(user) THEN Stop(401, Err("Not authenticated"), Null)
  ELSE IF user.role /= role /\ user.role /= "admin"
  THEN Stop(403, Err("Forbidden"), Null)
  ELSE Pass(user)

\* requireRole(role)
requireRole(role, user) ==
  IF IsNull(user) THEN Stop(401, Err("Not authenticated"), Null)
  ELSE IF user.role /= role THEN Stop(403, Err("Forbidden"), Null)
  ELSE Pass(user)

\* two gates in a row: the second runs only when the first called next()
Chain(g1, role) ==
  IF g1.next THEN [requireRole(role, g1.user) EXCEPT !.user = g1.user] ELSE g1

(* ------------------------------ state ---------------------------------- *)
VARIABLES
  users,      \* the account collection: _id -> document
  nextId,     \* the next account _id
  products,   \* the product collection: _id -> document
  nextPid,    \* the next product _id
  uploads,    \* files in the uploads directory: <<owner dir, filename>>
  now,        \* the clock
  cookie,     \* each client's cookie jar: the session cookie or Null
  resp,       \* the response to the last request
  obs         \* the last request as the server saw it

vars == <<users, nextId, products, nextPid, uploads, now, cookie, resp, obs>>

\* the routes mounted behind an authentication gate
UsersRoutes ==
  {"POST /users", "GET /users", "GET /users/:id", "PUT /users/:id",
   "DELETE /users/:id"}
AdminOnlyRoutes == UsersRoutes \cup {"PUT /products/:id", "DELETE /products/:id"}
ProtectedRoutes == AdminOnlyRoutes \cup {"POST /products"}

\* the stored document of the account the presented token names, when the
\* request arrives; Null when the token names none
AccountOf(token, store, t) ==
  IF IsNull(token) \/ token = Malformed THEN Null
  ELSE IF token.sig /= "SESSION_SECRET" \/ t >= token.exp THEN Null
  ELSE IF "uid" \notin DOMAIN token THEN Null
  ELSE IF token.uid \in DOMAIN store THEN store[token.uid] ELSE Null

\* the response is sent: the client's jar follows its cookie header; a fault
\* is an input only of a request that reaches the call it makes fail
Send(c, route, out, handler, input, fault) ==
  /\ (fault /= "none") = out.faulted
  /\ resp' = [status |-> out.status, body |-> out.body, cookie |-> out.cookie]
  /\ cookie' = [cookie EXCEPT ![c] = ApplyCookie(cookie[c], out.cookie)]
  /\ obs' = [route |-> route, client |-> c, token |-> cookie[c],
             account |-> AccountOf(cookie[c], users, now),
             user |-> out.user, handler |-> handler, input |-> input,
             fault |-> fault,
             replayed |-> /\ obs.route = "replay" /\ obs.client = c
                          /\ route \in ProtectedRoutes]

\* a handler's answer, after the gates let the request through with req.user
Answer(status, body, cookieOp, user) ==
  [next |-> FALSE, status |-> status, body |-> body, cookie |-> cookieOp,
   user |-> user, faulted |-> FALSE]

\* resp and obs describe the step just taken: nothing when it was no request;
\* replayed says the request, to a protected route, came right after its
\* client put back the cookie a logout had cleared
NoResponse == [status |-> 0, body |-> Null, cookie |-> Null]
NoRequest ==
  [route |-> "none", client |-> Browser, token |-> Null, account |-> Null,
   user |-> Null, handler |-> FALSE, input |-> Null, fault |-> "none",
   replayed |-> FALSE]

Init ==
  /\ users = SeedUsers
  /\ nextId = 3
  /\ products = <<>>
  /\ nextPid = 1
  /\ uploads = {}
  /\ now = 0
  /\ cookie = [c \in Clients |-> Null]
  /\ resp = NoResponse
  /\ obs = NoRequest

(* -------------------------- auth endpoints ----------------------------- *)
userSafe(user, fs) == [id |-> user._id] @@ [k \in fs \ {"id"} |-> user[k]]

\* mutant: a signup that answers a duplicate email with 409
SignupResult_Conflict(store, id, t, body, fault) ==
  LET email == Field(body, "email")
      username == Field(body, "username")
      password == Field(body, "password")
      mobile == Field(body, "mobile")
      user == NewUser(id, [email |-> email, username |-> username,
                           passwordHash |-> bcryptHash(password),
                           mobile |-> mobile], t)
  IN
  IF ~(Present(email) /\ Present(username) /\ Present(password)
       /\ Present(mobile))
  THEN [out |-> Answer(400, Err("Missing fields"), Null, Null), save |-> Null]
  ELSE IF fault = "store"
  THEN [out |-> Caught(500, Err("Server error"), Null, Null), save |-> Null]
  ELSE IF ~IsNull(findOneByEmail(store, email))
  THEN [out |-> Answer(409, Err("Email already in use"), Null, Null),
        save |-> Null]
  ELSE IF ~UserSchemaValid(user) \/ EmailTaken(store, email, id)
  THEN [out |-> Answer(500, Err("Server error"), Null, Null), save |-> Null]
  ELSE [out |-> Answer(201, [user |-> userSafe(user,
                  {"id", "email", "username", "role", "mobile"})], Null, Null),
        save |-> user]

\* POST /auth/signup
SignupResult(store, id, t, body, fault) ==
  LET email == Field(body, "email")
      username == Field(body, "username")
      password == Field(body, "password")
      mobile == Field(body, "mobile")
      user == NewUser(id, [email |-> email, username |-> username,
                           passwordHash |-> bcryptHash(password),
                           mobile |-> mobile], t)
  IN
  IF ~(Present(email) /\ Present(username) /\ Present(password)
       /\ Present(mobile))
  THEN [out |-> Answer(400, Err("Missing fields"), Null, Null), save |-> Null]
  ELSE IF fault = "store"
  THEN [out |-> Caught(500, Err("Server error"), Null, Null), save |-> Null]
  ELSE IF ~IsNull(findOneByEmail(store, email))
  THEN [out |-> Answer(400, Err("Email already in use"), Null, Null),
        save |-> Null]
  ELSE IF ~UserSchemaValid(user) \/ EmailTaken(store, email, id)
  THEN [out |-> Answer(500, Err("Server error"), Null, Null), save |-> Null]
  ELSE [out |-> Answer(201, [user |-> userSafe(user,
                  {"id", "email", "username", "role", "mobile"})], Null, Null),
        save |-> user]

Signup(c, body, fault) ==
  LET r == SignupResult(users, nextId, now, body, fault) IN
  /\ users' = IF IsNull(r.save) THEN users ELSE (nextId :> r.save) @@ users
  /\ nextId' = IF IsNull(r.save) THEN nextId ELSE nextId + 1
  /\ Send(c, "POST /auth/signup", r.out, TRUE, body, fault)
  /\ UNCHANGED <<products, nextPid, uploads, now>>

\* mutant: a login that tells an unknown email from a wrong password
LoginResult_Enumerates(store, t, env, body, fault) ==
  LET email == Field(body, "email")
      password == Field(body, "password")
      user == findOneByEmail(store, email)
  IN
  IF ~(Present(email) /\ Present(password))
  THEN Answer(400, Err("Missing fields"), Null, Null)
  ELSE IF fault = "store" THEN Caught(500, Err("Server error"), Null, Null)
  ELSE IF IsNull(user)
  THEN Answer(404, Err("User not found"), Null, Null)
  ELSE IF ~bcryptCompare(password, user.passwordHash)
  THEN Answer(401, Err("Invalid credentials"), Null, Null)
  ELSE Answer(200,
         [user |-> userSafe(user, {"id", "email", "username", "role"})],
         SetCookie(jwtSign([uid |-> user._id, role |-> user.role,
                            username |-> user.username], t), env),
         Null)

\* mutant: a login that clears the cookie when the credentials are refused
LoginResult_ClearsOnFailure(store, t, env, body, fault) ==
  LET email == Field(body, "email")
      password == Field(body, "password")
      user == findOneByEmail(store, email)
  IN
  IF ~(Present(email) /\ Present(password))
  THEN Answer(400, Err("Missing fields"), Null, Null)
  ELSE IF fault = "store" THEN Caught(500, Err("Server error"), Null, Null)
  ELSE IF IsNull(user)
  THEN Answer(401, Err("Invalid credentials"), ClearCookie, Null)
  ELSE IF ~bcryptCompare(password, user.passwordHash)
  THEN Answer(401, Err("Invalid credentials"), ClearCookie, Null)
  ELSE Answer(200,
         [user |-> userSafe(user, {"id", "email", "username", "role"})],
         SetCookie(jwtSign([uid |-> user._id, role |-> user.role,
                            username |-> user.username], t), env),
         Null)

\* POST /auth/login
LoginResult(store, t, env, body, fault) ==
  LET email == Field(body, "email")
      password == Field(body, "password")
      user == findOneByEmail(store, email)
  IN
  IF ~(Present(email) /\ Present(password))
  THEN Answer(400, Err("Missing fields"), Null, Null)
  ELSE IF fault = "store" THEN Caught(500, Err("Server error"), Null, Null)
  ELSE IF IsNull(user)
  THEN Answer(401, Err("Invalid credentials"), Null, Null)
  ELSE IF ~bcryptCompare(password, user.passwordHash)
  THEN Answer(401, Err("Invalid credentials"), Null, Null)
  ELSE Answer(200,
         [user |-> userSafe(user, {"id", "email", "username", "role"})],
         SetCookie(jwtSign([uid |-> user._id, role |-> user.role,
                            username |-> user.username], t), env),
         Null)

\* env is process.env.NODE_ENV, which cookieOptions() reads at every call
Login(c, body, env, fault) ==
  LET r == LoginResult(users, now, env, body, fault) IN
  /\ Send(c, "POST /auth/login", r, TRUE,
          IF IsNull(r.cookie) THEN body ELSE body @@ [env |-> env], fault)
  /\ UNCHANGED <<users, nextId, products, nextPid, uploads, now>>

\* mutant: a logout that leaves the cookie in place
LogoutResult_KeepsCookie == Answer(200, [ok |-> TRUE], Null, Null)

\* POST /auth/logout (app.js registers it first; routes/auth.js has the same)
LogoutResult == Answer(200, [ok |-> TRUE], ClearCookie, Null)

\* mutant: a logout that also removes the account the session names
Logout_ClosesAccount(c) ==
  /\ Send(c, "POST /auth/logout", LogoutResult, TRUE, Null, "none")
  /\ users' = IF IsNull(AccountOf(cookie[c], users, now)) THEN users
              ELSE [i \in DOMAIN users \ {cookie[c].uid} |-> users[i]]
  /\ UNCHANGED <<nextId, products, nextPid, uploads, now>>

Logout(c) ==
  /\ Send(c, "POST /auth/logout", LogoutResult, TRUE, Null, "none")
  /\ UNCHANGED <<users, nextId, products, nextPid, uploads, now>>

\* mutant: a whoami that rejects a session that does not verify
MeResult_Rejects(token, store, t, fault) ==
  IF IsNull(token) THEN Answer(200, [user |-> Null], Null, Null)
  ELSE LET payload == jwtVerify(token, t) IN
    IF IsNull(payload)
    THEN Answer(401, Err("Invalid or expired session"), ClearCookie, Null)
    ELSE IF fault = "store"
    THEN Caught(200, [user |-> Null], ClearCookie, Null)
    ELSE LET user == IF "uid" \in DOMAIN payload
                     THEN findByIdSafe(store, payload.uid) ELSE Null
         IN IF IsNull(user)
            THEN Answer(200, [user |-> Null], ClearCookie, Null)
            ELSE Answer(200, [user |-> user], Null, Null)

\* GET /auth/me
MeResult(token, store, t, fault) ==
  IF IsNull(token) THEN Answer(200, [user |-> Null], Null, Null)
  ELSE LET payload == jwtVerify(token, t) IN
    IF IsNull(payload)
    THEN Answer(200, [user |-> Null], ClearCookie, Null)
    ELSE IF fault = "store"
    THEN Caught(200, [user |-> Null], ClearCookie, Null)
    ELSE LET user == IF "uid" \in DOMAIN payload
                     THEN findByIdSafe(store, payload.uid) ELSE Null
         IN IF IsNull(user)
            THEN Answer(200, [user |-> Null], ClearCookie, Null)
            ELSE Answer(200, [user |-> user], Null, Null)

Me(c, fault) ==
  /\ Send(c, "GET /auth/me", MeResult(cookie[c], users, now, fault), TRUE,
          Null, fault)
  /\ UNCHANGED <<users, nextId, products, nextPid, uploads, now>>

(* ------------------------ GET /protected (app.js) ---------------------- *)
ProtectedResult(token, t) ==
  LET g == AppRequireAuth(token, t) IN
  IF ~g.next THEN g
  ELSE Answer(200, [message |-> <<"Hello", g.user.username>>,
                    user |-> g.user], Null, g.user)

Protected(c) ==
  /\ Send(c, "GET /protected", ProtectedResult(cookie[c], now),
          AppRequireAuth(cookie[c], now).next, Null, "none")
  /\ UNCHANGED <<users, nextId, products, nextPid, uploads, now>>

(* ------------- /users: app.js requireAuth, then routes/users.js -------- *)
UsersGate(token, t) == Chain(AppRequireAuth(token, t), "admin")

userView(u) ==
  [id |-> u._id, email |-> u.email, username |-> u.username,
   mobile |-> u.mobile, role |-> u.role, createdAt |-> u.createdAt]

\* POST /users
UsersCreateResult(store, id, t, reqUser, body, fault) ==
  LET email == Field(body, "email")
      username == Field(body, "username")
      password == Field(body, "password")
      role == Field(body, "role")
      user == NewUser(id, [email |-> email, username |-> username,
                passwordHash |-> bcryptHash(password),
                role |-> IF Present(role) THEN role ELSE "user",
                mobile |-> Field(body, "mobile")], t)
  IN
  IF ~(Present(email) /\ Present(username) /\ Present(password))
  THEN [out |-> Answer(400, Err("Missing fields"), Null, reqUser),
        save |-> Null]
  ELSE IF fault = "store"
  THEN [out |-> Caught(500, Err("Server error"), Null, reqUser),
        save |-> Null]
  ELSE IF ~IsNull(findOneByEmail(store, email))
  THEN [out |-> Answer(400, Err("Email already exists"), Null, reqUser),
        save |-> Null]
  ELSE IF ~UserSchemaValid(user) \/ EmailTaken(store, email, id)
  THEN [out |-> Answer(500, Err("Server error"), Null, reqUser),
        save |-> Null]
  ELSE [out |-> Answer(201, [user |-> userSafe(user,
                  {"id", "email", "username", "role", "mobile"})], Null,
                  reqUser),
        save |-> user]

UsersCreate(c, body, fault) ==
  LET g == UsersGate(cookie[c], now)
      r == IF g.next
           THEN UsersCreateResult(users, nextId, now, g.user, body, fault)
           ELSE [out |-> g, save |-> Null]
  IN
  /\ users' = IF IsNull(r.save) THEN users ELSE (nextId :> r.save) @@ users
  /\ nextId' = IF IsNull(r.save) THEN nextId ELSE nextId + 1
  /\ Send(c, "POST /users", r.out, g.next, Null, fault)
  /\ UNCHANGED <<products, nextPid, uploads, now>>

\* GET /users
UsersListResult(store, reqUser, fault) ==
  IF fault = "store" THEN Caught(500, Err("Server error"), Null, reqUser)
  ELSE Answer(200,
         [meta |-> [total |-> Cardinality(DOMAIN store), page |-> 1,
                    limit |-> 20, pages |-> 1],
          users |-> { userView(findByIdSafe(store, i)) : i \in DOMAIN store }],
         Null, reqUser)

UsersList(c, fault) ==
  LET g == UsersGate(cookie[c], now) IN
  /\ Send(c, "GET /users",
          IF g.next THEN UsersListResult(users, g.user, fault) ELSE g,
          g.next, Null, fault)
  /\ UNCHANGED <<users, nextId, products, nextPid, uploads, now>>

\* GET /users/:id
UsersGetResult(store, reqUser, id, fault) ==
  IF fault = "store" THEN Caught(500, Err("Server error"), Null, reqUser)
  ELSE IF IsNull(findByIdSafe(store, id))
  THEN Answer(404, Err("Not found"), Null, reqUser)
  ELSE Answer(200, [user |-> userView(findByIdSafe(store, id))], Null,
              reqUser)

UsersGet(c, id, fault) ==
  LET g == UsersGate(cookie[c], now) IN
  /\ Send(c, "GET /users/:id",
          IF g.next THEN UsersGetResult(users, g.user, id, fault) ELSE g,
          g.next, Null, fault)
  /\ UNCHANGED <<users, nextId, products, nextPid, uploads, now>>

\* the update document PUT /users/:id builds from the body
UserUpdate(body) ==
  [k \in DOMAIN body \cap {"email", "username", "mobile", "role"} |-> body[k]]
  @@ (IF "password" \in DOMAIN body
      THEN [passwordHash |-> bcryptHash(body.password)]
      ELSE [k \in {} |-> Absent])

\* PUT /users/:id
UsersUpdateResult(store, reqUser, id, update, fault) ==
  IF fault = "store"
  THEN [out |-> Caught(500, Err("Server error"), Null, reqUser),
        store |-> store]
  ELSE IF "email" \in DOMAIN update /\ id \in DOMAIN store
          /\ EmailTaken(store, update.email, id)
  THEN [out |-> Answer(500, Err("Server error"), Null, reqUser),
        store |-> store]
  ELSE IF id \notin DOMAIN store
  THEN [out |-> Answer(404, Err("Not found"), Null, reqUser), store |-> store]
  ELSE LET updated == update @@ store[id] IN
       [out |-> Answer(200, [user |-> userView(
                   WithoutFields(updated, {"passwordHash"}))], Null, reqUser),
        store |-> [store EXCEPT ![id] = updated]]

UsersUpdate(c, id, body, fault) ==
  LET g == UsersGate(cookie[c], now)
      r == IF g.next
           THEN UsersUpdateResult(users, g.user, id, UserUpdate(body), fault)
           ELSE [out |-> g, store |-> users]
  IN
  /\ users' = r.store
  /\ Send(c, "PUT /users/:id", r.out, g.next, Null, fault)
  /\ UNCHANGED <<nextId, products, nextPid, uploads, now>>

\* DELETE /users/:id
UsersDeleteResult(store, reqUser, id, fault) ==
  IF fault = "store"
  THEN [out |-> Caught(500, Err("Server error"), Null, reqUser),
        store |-> store]
  ELSE IF id \notin DOMAIN store
  THEN [out |-> Answer(404, Err("Not found"), Null, reqUser), store |-> store]
  ELSE [out |-> Answer(200, [ok |-> TRUE], Null, reqUser),
        store |-> [i \in DOMAIN store \ {id} |-> store[i]]]

UsersDelete(c, id, fault) ==
  LET g == UsersGate(cookie[c], now)
      r == IF g.next THEN UsersDeleteResult(users, g.user, id, fault)
           ELSE [out |-> g, store |-> users]
  IN
  /\ users' = r.store
  /\ Send(c, "DELETE /users/:id", r.out, g.next, Null, fault)
  /\ UNCHANGED <<nextId, products, nextPid, uploads, now>>

(* --------------------------- /products --------------------------------- *)
\* the ObjectId cast of the owner path of ProductSchema
IsObjectId(owner) == owner \in {"1", "2"}
ToObjectId(owner) == IF owner = "1" THEN 1 ELSE 2

\* multer diskStorage: the directory is String(req.query.owner)
UploadDir(owner) == IF Present(owner) THEN owner ELSE "undefined"
\* upload.single("file"): the uploads directory after the middleware ran
Upload(disk, owner, file) ==
  IF Present(file) THEN disk \cup {<<UploadDir(owner), file>>} ELSE disk

\* const owner = req.query?.owner || "anonymous"
OwnerOrAnonymous(owner) == IF Present(owner) THEN owner ELSE "anonymous"
\* the files entry the handlers build: path `/uploads/${owner}/${filename}`
FileEntry(owner, file) == <<OwnerOrAnonymous(owner), file>>
\* safeUnlink over a product's files
Unlink(disk, files) == disk \ files

\* POST /products: requireAuth, upload.single, handler
ProductsCreateResult(store, disk, pid, reqUser, in, fault) ==
  LET name == Field(in, "name")
      owner == Field(in, "owner")
      file == Field(in, "file")
      stored == Upload(disk, owner, file)
      product == [_id |-> pid, owner |-> ToObjectId(OwnerOrAnonymous(owner)),
                  name |-> name, description |-> "",
                  files |-> IF Present(file) THEN {FileEntry(owner, file)}
                            ELSE {}]
  IN
  IF ~Present(name)
  THEN [out |-> Answer(400, Err("Missing product name"), Null, reqUser),
        store |-> store, disk |-> stored]
  ELSE IF fault = "store"
  THEN [out |-> Caught(500, Err("Server error"), Null, reqUser),
        store |-> store, disk |-> stored]
  ELSE IF ~IsObjectId(OwnerOrAnonymous(owner))
  THEN [out |-> Answer(500, Err("Server error"), Null, reqUser),
        store |-> store, disk |-> stored]
  ELSE [out |-> Answer(201, [product |-> product], Null, reqUser),
        store |-> (pid :> product) @@ store, disk |-> stored]

ProductsCreate(c, in, fault) ==
  LET g == requireAuth(cookie[c], users, now, fault = "gate")
      r == IF g.next
           THEN ProductsCreateResult(products, uploads, nextPid, g.user, in,
                                     fault)
           ELSE [out |-> g, store |-> products, disk |-> uploads]
  IN
  /\ nextPid \in ProductIds
  /\ products' = r.store
  /\ nextPid' = IF r.store = products THEN nextPid ELSE nextPid + 1
  /\ uploads' = r.disk
  /\ Send(c, "POST /products", r.out, g.next, Null, fault)
  /\ UNCHANGED <<users, nextId, now>>

\* PUT /products/:id: requireAuth, requireRole("admin"), upload.single, handler
ProductsUpdateResult(store, disk, reqUser, id, in, fault) ==
  LET name == Field(in, "name")
      owner == Field(in, "owner")
      file == Field(in, "file")
      stored == Upload(disk, owner, file)
      unlinked == IF Present(file) THEN Unlink(stored, store[id].files)
                  ELSE stored
      product == [store[id] EXCEPT
                    !.files = IF Present(file) THEN {FileEntry(owner, file)}
                              ELSE @,
                    !.name = IF Present(name) THEN name ELSE @,
                    !.owner = ToObjectId(OwnerOrAnonymous(owner))]
  IN
  IF fault = "store"
  THEN [out |-> Caught(500, Err("Server error"), Null, reqUser),
        store |-> store, disk |-> stored]
  ELSE IF id \notin DOMAIN store
  THEN [out |-> Answer(404, Err("Not found"), Null, reqUser),
        store |-> store, disk |-> stored]
  ELSE IF ~IsObjectId(OwnerOrAnonymous(owner))
  THEN [out |-> Answer(500, Err("Server error"), Null, reqUser),
        store |-> store, disk |-> unlinked]
  ELSE [out |-> Answer(200, [product |-> product], Null, reqUser),
        store |-> [store EXCEPT ![id] = product], disk |-> unlinked]

\* mutant: PUT /products/:id with the upload middleware in front of the gates
ProductsUpdate_UploadFirst(c, id, in, fault) ==
  LET g == Chain(requireAuth(cookie[c], users, now, fault = "gate"), "admin")
      r == IF g.next
           THEN ProductsUpdateResult(products, uploads, g.user, id, in, fault)
           ELSE [out |-> g, store |-> products,
                 disk |-> Upload(uploads, Field(in, "owner"),
                                 Field(in, "file"))]
  IN
  /\ products' = r.store
  /\ uploads' = r.disk
  /\ Send(c, "PUT /products/:id", r.out, g.next, Null, fault)
  /\ UNCHANGED <<users, nextId, nextPid, now>>

ProductsUpdate(c, id, in, fault) ==
  LET g == Chain(requireAuth(cookie[c], users, now, fault = "gate"), "admin")
      r == IF g.next
           THEN ProductsUpdateResult(products, uploads, g.user, id, in, fault)
           ELSE [out |-> g, store |-> products, disk |-> uploads]
  IN
  /\ products' = r.store
  /\ uploads' = r.disk
  /\ Send(c, "PUT /products/:id", r.out, g.next, Null, fault)
  /\ UNCHANGED <<users, nextId, nextPid, now>>

\* DELETE /products/:id: requireAuth, requireRole("admin"), handler
ProductsDeleteResult(store, disk, reqUser, id, fault) ==
  IF fault = "store"
  THEN [out |-> Caught(500, Err("Server error"), Null, reqUser),
        store |-> store, disk |-> disk]
  ELSE IF id \notin DOMAIN store
  THEN [out |-> Answer(404, Err("Not found"), Null, reqUser),
        store |-> store, disk |-> disk]
  ELSE [out |-> Answer(200, [ok |-> TRUE], Null, reqUser),
        store |-> [i \in DOMAIN store \ {id} |-> store[i]],
        disk |-> Unlink(disk, store[id].files)]

ProductsDelete(c, id, fault) ==
  LET g == Chain(requireAuth(cookie[c], users, now, fault = "gate"), "admin")
      r == IF g.next
           THEN ProductsDeleteResult(products, uploads, g.user, id, fault)
           ELSE [out |-> g, store |-> products, disk |-> uploads]
  IN
  /\ products' = r.store
  /\ uploads' = r.disk
  /\ Send(c, "DELETE /products/:id", r.out, g.next, Null, fault)
  /\ UNCHANGED <<users, nextId, nextPid, now>>

\* GET /products/user/:id: no gate; populate("owner", "email username role")
Populate(store, id) ==
  IF id \in DOMAIN store
  THEN [_id |-> id, email |-> store[id].email,
        username |-> store[id].username, role |-> store[id].role]
  ELSE Null

ProductsByUserResult(store, accounts, id, fault) ==
  IF fault = "store" THEN Caught(500, Err("Server error"), Null, Null)
  ELSE Answer(200,
         [products |-> { [store[p] EXCEPT !.owner = Populate(accounts, id)] :
                         p \in { q \in DOMAIN store : store[q].owner = id } }],
         Null, Null)

ProductsByUser(c, id, fault) ==
  /\ Send(c, "GET /products/user/:id",
          ProductsByUserResult(products, users, id, fault), TRUE,
          Null, fault)
  /\ UNCHANGED <<users, nextId, products, nextPid, uploads, now>>

(* --------------------------- environment ------------------------------- *)
\* time passes
Tick ==
  /\ now < MaxTime
  /\ now' = now + 1
  /\ resp' = NoResponse
  /\ obs' = NoRequest
  /\ UNCHANGED <<users, nextId, products, nextPid, uploads, cookie>>

\* a client replaces its cookie by a value it made up
Tamper(c, token) ==
  /\ cookie[c] /= token
  /\ cookie' = [cookie EXCEPT ![c] = token]
  /\ resp' = NoResponse
  /\ obs' = NoRequest
  /\ UNCHANGED <<users, nextId, products, nextPid, uploads, now>>

\* right after a logout the client puts back the cookie the logout cleared:
\* it had kept a copy of the token
Replay(c) ==
  /\ obs.route = "POST /auth/logout" /\ obs.client = c
  /\ ~IsNull(obs.token)
  /\ cookie' = [cookie EXCEPT ![c] = obs.token]
  /\ resp' = NoResponse
  /\ obs' = [NoRequest EXCEPT !.route = "replay", !.client = c,
                              !.token = obs.token]
  /\ UNCHANGED <<users, nextId, products, nextPid, uploads, now>>

StoreFaults == {"none", "store"}

Next ==
  \/ \E b \in SignupBodies, f \in StoreFaults : Signup(Browser, b, f)
  \/ \E c \in Clients, e \in Envs, f \in StoreFaults :
        \E b \in LoginBodies(c) : Login(c, b, e, f)
  \/ Logout(Browser)
  \/ \E f \in StoreFaults : Me(Browser, f)
  \/ Protected(Browser)
  \/ \E b \in CreateBodies, f \in StoreFaults : UsersCreate(Browser, b, f)
  \/ \E f \in StoreFaults : UsersList(Browser, f)
  \/ \E i \in UserIdsIn, f \in StoreFaults : UsersGet(Browser, i, f)
  \/ \E c \in Clients, i \in UserIdsIn, f \in StoreFaults :
        \E b \in UpdateBodies(c) : UsersUpdate(c, i, b, f)
  \/ \E i \in UserIdsIn, f \in StoreFaults : UsersDelete(Browser, i, f)
  \/ \E in \in ProductInputs, f \in Faults : ProductsCreate(Browser, in, f)
  \/ \E i \in ProductIds, in \in ProductInputs, f \in Faults :
        ProductsUpdate(Browser, i, in, f)
  \/ \E i \in ProductIds, f \in Faults : ProductsDelete(Browser, i, f)
  \/ \E i \in UserIdsIn, f \in StoreFaults : ProductsByUser(Browser, i, f)
  \/ Tick
  \/ \E t \in ForgedTokens : Tamper(Browser, t)
  \/ Replay(Browser)

Spec == Init /\ [][Next]_vars

(* ------------------- the role gate on its own -------------------------- *)
\* roles a route can require: requireRole(role) takes any string
RequiredRoles == Roles \cup {"manager"}
\* what a gate can have left in req.user: nothing, a stored document without
\* its hash (middleware/auth.js), or a verified token payload (app.js)
Principals ==
  {Null}
  \cup { [_id |-> i, role |-> r, username |-> u] :
           i \in {1, 2, 3}, r \in Roles, u \in {"alice", "bob", "nan"} }
  \cup { [uid |-> i, role |-> r, username |-> u] :
           i \in {1, 2, 3}, r \in Roles, u \in {"alice", "bob", "nan"} }

\* a request reaches requireRole(role) with req.user = user
RoleGate(role, user) ==
  LET out == requireRole(role, user) IN
  /\ resp' = [status |-> out.status, body |-> out.body, cookie |-> out.cookie]
  /\ obs' = [NoRequest EXCEPT !.route = "requireRole", !.user = user,
                              !.handler = out.next,
                              !.input = [role |-> role]]
  /\ UNCHANGED <<users, nextId, products, nextPid, uploads, now, cookie>>

RoleNext == \E role \in RequiredRoles, user \in Principals : RoleGate(role, user)

RoleSpec == Init /\ [][RoleNext]_vars

(* -------- a gated request in flight while its account is written ------- *)
\* Under RaceSpec one request to an admin-only route is followed through its
\* middleware chain, one middleware per step, while PUT and DELETE /users/:id
\* of an administrator write the account the request's token names. Here obs
\* is the request in flight: phase says how far it got, reads counts the
\* account reads made for it, held collects what the store said of the
\* account's role since the request arrived.
Gone == "<gone>"
RoleNow(store, id) == IF id \in DOMAIN store THEN store[id].role ELSE Gone

\* tokens the second seeded account got at a login, for each role it has had
RaceTokens ==
  { jwtSign([uid |-> 2, role |-> r, username |-> "bob"], 0) : r \in Roles }
\* routes whose chain is app.js requireAuth, requireRole('admin')
RaceUsersRoutes ==
  {"POST /users", "GET /users", "GET /users/:id", "PUT /users/:id",
   "DELETE /users/:id"}
\* routes whose chain is middleware/auth.js requireAuth, requireRole('admin')
RaceProductsRoutes == {"PUT /products/:id", "DELETE /products/:id"}

RaceIdle ==
  [route |-> "none", client |-> Browser, token |-> Null, phase |-> "idle",
   user |-> Null, reads |-> 0, held |-> {}, handler |-> FALSE]

RaceInit ==
  /\ users = SeedUsers
  /\ nextId = 3
  /\ products = <<>>
  /\ nextPid = 1
  /\ uploads = {}
  /\ now = 0
  /\ cookie = [c \in Clients |-> Null]
  /\ resp = NoResponse
  /\ obs = RaceIdle

InFlight == obs.phase \in {"arrived", "resolved"}

\* the request arrives with the client's cookie
RaceArrive(route, token) ==
  /\ ~InFlight
  /\ cookie' = [cookie EXCEPT ![Browser] = token]
  /\ obs' = [RaceIdle EXCEPT !.route = route, !.token = token,
                             !.phase = "arrived",
                             !.held = {RoleNow(users, token.uid)}]
  /\ resp' = NoResponse
  /\ UNCHANGED <<users, nextId, products, nextPid, uploads, now>>

\* the authentication gate answered or called next()
RaceGateDone(g, reads) ==
  /\ obs' = [obs EXCEPT !.phase = IF g.next THEN "resolved" ELSE "done",
                        !.user = g.user, !.reads = reads]
  /\ resp' = IF g.next THEN resp
             ELSE [status |-> g.status, body |-> g.body, cookie |-> g.cookie]
  /\ cookie' = [cookie EXCEPT
                  ![obs.client] = ApplyCookie(cookie[obs.client], g.cookie)]
  /\ UNCHANGED <<users, nextId, products, nextPid, uploads, now>>

\* requireAuth of middleware/auth.js runs: one User.findById when the token
\* verifies and names an id
RaceRequireAuth ==
  /\ obs.phase = "arrived" /\ obs.route \in RaceProductsRoutes
  /\ LET payload == jwtVerify(obs.token, now) IN
     RaceGateDone(requireAuth(obs.token, users, now, FALSE),
                  IF ~IsNull(payload) /\ "uid" \in DOMAIN payload
                  THEN obs.reads + 1 ELSE obs.reads)

\* requireAuth of app.js runs: it makes no store call
RaceAppRequireAuth ==
  /\ obs.phase = "arrived" /\ obs.route \in RaceUsersRoutes
  /\ RaceGateDone(AppRequireAuth(obs.token, now), obs.reads)

\* requireRole('admin') runs on the req.user the gate left
RaceRequireRole ==
  /\ obs.phase = "resolved"
  /\ LET r == requireRole("admin", obs.user) IN
     /\ obs' = [obs EXCEPT !.phase = "done", !.handler = r.next]
     /\ resp' = IF r.next THEN resp
                ELSE [status |-> r.status, body |-> r.body,
                      cookie |-> r.cookie]
  /\ UNCHANGED <<users, nextId, products, nextPid, uploads, now, cookie>>

\* what the request in flight has seen of its account after a write
Held(store) ==
  IF InFlight THEN [obs EXCEPT !.held = @ \cup {RoleNow(store, obs.token.uid)}]
  ELSE obs

\* User.findByIdAndUpdate(id, { role }) of an administrator's PUT /users/:id
RaceSetRole(id, role) ==
  /\ id \in DOMAIN users /\ users[id].role /= role
  /\ users' = [users EXCEPT ![id].role = role]
  /\ obs' = Held(users')
  /\ UNCHANGED <<nextId, products, nextPid, uploads, now, cookie, resp>>

\* User.findByIdAndDelete(id) of an administrator's DELETE /users/:id
RaceDelete(id) ==
  /\ id \in DOMAIN users
  /\ users' = [i \in DOMAIN users \ {id} |-> users[i]]
  /\ obs' = Held(users')
  /\ UNCHANGED <<nextId, products, nextPid, uploads, now, cookie, resp>>

RaceNext ==
  \/ \E route \in RaceUsersRoutes \cup RaceProductsRoutes,
        token \in RaceTokens : RaceArrive(route, token)
  \/ RaceRequireAuth
  \/ RaceAppRequireAuth
  \/ RaceRequireRole
  \/ \E role \in Roles : RaceSetRole(2, role)
  \/ RaceDelete(2)

RaceSpec == RaceInit /\ [][RaceNext]_vars

(* ------ two account-creating requests between check and save ----------- *)
\* Under CreateSpec two requests that create an account (POST /auth/signup,
\* or POST /users of an administrator, past its gates) run their handlers
\* one await at a time: the field check, User.findOne, user.save(). PUT
\* /users/:id of an administrator changes emails meanwhile. Here obs maps
\* each request slot to how far its handler got.
Slots == {"s1", "s2"}
CreateRoutes == {"POST /auth/signup", "POST /users"}
CreateInputs(route) ==
  IF route = "POST /auth/signup" THEN SignupBodies ELSE CreateBodies
\* the fields whose absence makes the handler answer 400
CreateRequired(route) ==
  IF route = "POST /auth/signup"
  THEN {"email", "username", "password", "mobile"}
  ELSE {"email", "username", "password"}
\* the document the handler hands to new User(...)
CreateDoc(route, body, id, t) ==
  IF route = "POST /auth/signup"
  THEN NewUser(id, [email |-> body.email, username |-> body.username,
                    passwordHash |-> bcryptHash(body.password),
                    mobile |-> body.mobile], t)
  ELSE NewUser(id, [email |-> body.email, username |-> body.username,
                    passwordHash |-> bcryptHash(body.password),
                    role |-> IF Present(Field(body, "role"))
                             THEN body.role ELSE "user",
                    mobile |-> Field(body, "mobile")], t)
\* emails PUT /users/:id can set
EmailsIn == {"a@x.com", "b@x.com", "n@x.com"}

SlotIdle ==
  [route |-> "none", body |-> Null, phase |-> "idle", status |-> 0,
   racing |-> FALSE]

CreateInit ==
  /\ users = SeedUsers
  /\ nextId = 3
  /\ products = <<>>
  /\ nextPid = 1
  /\ uploads = {}
  /\ now = 0
  /\ cookie = [c \in Clients |-> Null]
  /\ resp = NoResponse
  /\ obs = [k \in Slots |-> SlotIdle]

\* the handler starts: it answers 400 when a required field is missing
CreateArrive(k, route, body) ==
  LET missing == ~(CreateRequired(route) \subseteq DOMAIN body) IN
  /\ obs[k].phase \in {"idle", "done"}
  /\ obs' = [obs EXCEPT ![k] =
       [SlotIdle EXCEPT !.route = route, !.body = body,
                        !.phase = IF missing THEN "done" ELSE "arrived",
                        !.status = IF missing THEN 400 ELSE 0]]
  /\ resp' = IF missing
             THEN [status |-> 400, body |-> Err("Missing fields"),
                   cookie |-> Null]
             ELSE NoResponse
  /\ UNCHANGED <<users, nextId, products, nextPid, uploads, now, cookie>>

\* await User.findOne({ email }): 400 when the email is registered; racing
\* records that another request had passed this check for the same email and
\* not yet saved
CreateFindOne(k) ==
  LET found == ~IsNull(findOneByEmail(users, obs[k].body.email)) IN
  /\ obs[k].phase = "arrived"
  /\ obs' = [obs EXCEPT ![k] =
       [@ EXCEPT !.phase = IF found THEN "done" ELSE "checked",
                 !.status = IF found THEN 400 ELSE 0,
                 !.racing = \E j \in Slots \ {k} :
                              /\ obs[j].phase = "checked"
                              /\ obs[j].body.email = obs[k].body.email]]
  /\ resp' = IF found
             THEN [status |-> 400, cookie |-> Null,
                   body |-> IF obs[k].route = "POST /auth/signup"
                            THEN Err("Email already in use")
                            ELSE Err("Email already exists")]
             ELSE NoResponse
  /\ UNCHANGED <<users, nextId, products, nextPid, uploads, now, cookie>>

\* await user.save(): schema validation, then the insert under the unique
\* index; a rejection is answered 500 by the catch block
CreateSave(k) ==
  LET doc == CreateDoc(obs[k].route, obs[k].body, nextId, now)
      refused == ~UserSchemaValid(doc) \/ EmailTaken(users, doc.email, nextId)
  IN
  /\ obs[k].phase = "checked"
  /\ users' = IF refused THEN users ELSE (nextId :> doc) @@ users
  /\ nextId' = IF refused THEN nextId ELSE nextId + 1
  /\ obs' = [obs EXCEPT ![k] =
       [@ EXCEPT !.phase = "done",
                 !.status = IF refused THEN 500 ELSE 201]]
  /\ resp' = IF refused
             THEN [status |-> 500, body |-> Err("Server error"),
                   cookie |-> Null]
             ELSE [status |-> 201, cookie |-> Null,
                   body |-> [user |-> userSafe(doc,
                     {"id", "email", "username", "role", "mobile"})]]
  /\ UNCHANGED <<products, nextPid, uploads, now, cookie>>

\* User.findByIdAndUpdate(id, { email }) of an administrator's PUT /users/:id
CreateSetEmail(id, email) ==
  LET r == UsersUpdateResult(users, Null, id, [email |-> email], "none") IN
  /\ id \in DOMAIN users /\ users[id].email /= email
  /\ users' = r.store
  /\ resp' = [status |-> r.out.status, body |-> r.out.body,
              cookie |-> r.out.cookie]
  /\ UNCHANGED <<nextId, products, nextPid, uploads, now, cookie, obs>>

CreateNext ==
  \/ \E k \in Slots, route \in CreateRoutes :
        \E body \in CreateInputs(route) : CreateArrive(k, route, body)
  \/ \E k \in Slots : CreateFindOne(k)
  \/ \E k \in Slots : CreateSave(k)
  \/ \E id \in DOMAIN SeedUsers, email \in EmailsIn : CreateSetEmail(id, email)

CreateSpec == CreateInit /\ [][CreateNext]_vars

(* ======================================================================= *)
(* Properties                                                              *)
(* ======================================================================= *)
\* the request carried a token that is well formed, rightly signed, unexpired
TokenVerifies ==
  /\ ~IsNull(obs.token) /\ obs.token /= Malformed
  /\ obs.token.sig = "SESSION_SECRET" /\ now < obs.token.exp
\* the request carried a cookie that does not verify
TokenInvalid == ~IsNull(obs.token) /\ ~TokenVerifies
\* the request carried a verifying token that names an account id
TokenNamesAccount == TokenVerifies /\ "uid" \in DOMAIN obs.token

\* C1: on every admin-only route, a request whose unexpired token still says
\* role=user while the store now says admin for that account passes both
\* gates and reaches the handler.
C1_UpgradeTakesEffect ==
  ( /\ obs.route \in AdminOnlyRoutes
    /\ TokenNamesAccount /\ obs.token.role = "user"
    /\ ~IsNull(obs.account) /\ obs.account.role = "admin"
    /\ obs.fault = "none" )
  => obs.handler

\* C2: on every admin-only route, a request whose token was issued while the
\* account was admin, after the store changed the role to user, is answered 403
\* and does not reach the handler.
C2_DowngradeTakesEffect ==
  ( /\ obs.route \in AdminOnlyRoutes
    /\ TokenNamesAccount /\ obs.token.role = "admin"
    /\ ~IsNull(obs.account) /\ obs.account.role = "user"
    /\ obs.fault = "none" )
  => (~obs.handler /\ resp.status = 403)

\* C3: on every protected route, a verifying token whose account is no longer
\* in the store is answered 401 with the cookie cleared, and the handler does
\* not run.
C3_DeletedAccountRejected ==
  ( /\ obs.route \in ProtectedRoutes
    /\ TokenNamesAccount /\ IsNull(obs.account)
    /\ obs.fault = "none" )
  => (resp.status = 401 /\ resp.cookie = ClearCookie /\ ~obs.handler)

\* C4: on every protected route, an expired, malformed or wrongly signed token
\* is answered 401 with the cookie cleared, and the handler does not run.
C4_InvalidTokenRejected ==
  (obs.route \in ProtectedRoutes /\ TokenInvalid)
  => (resp.status = 401 /\ resp.cookie = ClearCookie /\ ~obs.handler)

\* the id of a principal: _id of a stored document, uid of a token payload
PrincipalId(u) == IF "_id" \in DOMAIN u THEN u._id ELSE u.uid

\* C5: whenever a protected handler runs, req.user has the id the token
\* carries and the role and username the store held at the gate's lookup.
C5_PrincipalIsCurrentAccount ==
  (obs.route \in ProtectedRoutes /\ obs.handler /\ TokenNamesAccount)
  => ( /\ ~IsNull(obs.user) /\ ~IsNull(obs.account)
       /\ PrincipalId(obs.user) = obs.token.uid
       /\ obs.user.role = obs.account.role
       /\ obs.user.username = obs.account.username )

\* the body of a signup request has all four fields
SignupComplete(body) ==
  {"email", "username", "password", "mobile"} \subseteq DOMAIN body

\* C6: a signup with all four fields and an email not yet registered answers
\* 201 with the safe projection, and the account is in the store afterwards.
C6_SignupSucceeds ==
  [][ ( /\ obs'.route = "POST /auth/signup"
        /\ SignupComplete(obs'.input)
        /\ IsNull(findOneByEmail(users, obs'.input.email))
        /\ obs'.fault = "none" )
      => ( /\ resp'.status = 201
           /\ ~IsNull(findOneByEmail(users', obs'.input.email)) ) ]_vars

\* a document that shows a password or its hash
Leaks(doc) == {"passwordHash", "password"} \cap DOMAIN doc /= {}
BodyLeaks(body) ==
  \/ Leaks(body)
  \/ "user" \in DOMAIN body /\ Leaks(body.user)
  \/ "users" \in DOMAIN body /\ \E u \in body.users : Leaks(u)
  \/ "product" \in DOMAIN body /\ Leaks(body.product)
  \/ "products" \in DOMAIN body
     /\ \E p \in body.products : Leaks(p) \/ Leaks(p.owner)

\* C7: no response payload, no cookie and no principal attached to a request
\* contains an account's password hash or plaintext password.
C7_PasswordNeverLeaves ==
  /\ ~BodyLeaks(resp.body)
  /\ ~Leaks(obs.user)
  /\ (~IsNull(resp.cookie) /\ resp.cookie.op = "set")
       => ~Leaks(resp.cookie.value)

\* GET /auth/me answered with the account of a stored document that has a hash
C7_Witness ==
  /\ obs.route = "GET /auth/me"
  /\ ~IsNull(obs.account) /\ "passwordHash" \in DOMAIN obs.account
  /\ ~IsNull(resp.body.user) /\ resp.body.user.email = obs.account.email

\* a login request with both fields
LoginComplete(body) == {"email", "password"} \subseteq DOMAIN body
InvalidCredentials ==
  [status |-> 401, body |-> [error |-> "Invalid credentials"],
   cookie |-> Null]

\* C8: a login with both fields present is answered by the same response,
\* 401 {error: 'Invalid credentials'} with no cookie set or cleared, when the
\* email is unknown and when the email is known and the password is wrong.
C8_LoginDoesNotEnumerate ==
  ( /\ obs.route = "POST /auth/login"
    /\ LoginComplete(obs.input) /\ obs.fault = "none"
    /\ \/ \A i \in DOMAIN users : users[i].email /= obs.input.email
       \/ \E i \in DOMAIN users :
            /\ users[i].email = obs.input.email
            /\ users[i].passwordHash /= bcryptHash(obs.input.password) )
  => resp = InvalidCredentials

\* a login with a registered email and a wrong password was answered
C8_Witness ==
  /\ obs.route = "POST /auth/login"
  /\ LoginComplete(obs.input) /\ obs.fault = "none"
  /\ \E i \in DOMAIN users :
       /\ users[i].email = obs.input.email
       /\ users[i].passwordHash /= bcryptHash(obs.input.password)
  /\ resp.status = 401

LoggedOut == [status |-> 200, body |-> [ok |-> TRUE], cookie |-> ClearCookie]

\* C9: POST /auth/logout answers 200 {ok: true} and clears the session cookie
\* whatever the client held before, and changes nothing on the server; a
\* logout that follows a logout of the same client gives the same response
\* and leaves the client's jar as the first one left it.
C9_LogoutIdempotent ==
  [][ obs'.route = "POST /auth/logout"
      => ( /\ resp' = LoggedOut
           /\ IsNull(cookie'[obs'.client])
           /\ users' = users
           /\ (obs.route = "POST /auth/logout" /\ obs.client = obs'.client)
                => (resp' = resp /\ cookie' = cookie) ) ]_vars

\* a logout by a client that held a session of an existing account
C9_Witness ==
  /\ obs.route = "POST /auth/logout"
  /\ ~IsNull(obs.account)
  /\ resp.status = 200 /\ IsNull(cookie[obs.client])

FreshSignup ==
  /\ obs.route = "POST /auth/signup"
  /\ SignupComplete(obs.input) /\ obs.fault = "none"
  /\ resp.body /= Err("Email already in use")

\* C11: the session lifecycle, request after request: a signup with all four
\* fields of an unregistered email answers 201; the login that follows it with
\* the same email and password answers 200 and sets the cookie; GET /auth/me
\* after a login answers 200 with the account of that email; the logout that
\* follows answers 200 and clears the cookie; GET /auth/me after the logout
\* answers 200 {user: null}.
C11_SessionLifecycle ==
  [][ /\ ( /\ obs'.route = "POST /auth/signup"
           /\ SignupComplete(obs'.input) /\ obs'.fault = "none"
           /\ IsNull(findOneByEmail(users, obs'.input.email)) )
         => resp'.status = 201
      /\ ( /\ FreshSignup
           /\ obs'.route = "POST /auth/login" /\ obs'.client = obs.client
           /\ obs'.fault = "none" /\ LoginComplete(obs'.input)
           /\ obs'.input.email = obs.input.email
           /\ obs'.input.password = obs.input.password )
         => ( /\ resp'.status = 200
              /\ ~IsNull(resp'.cookie) /\ resp'.cookie.op = "set" )
      /\ ( /\ obs.route = "POST /auth/login" /\ resp.status = 200
           /\ obs'.route = "GET /auth/me" /\ obs'.client = obs.client
           /\ obs'.fault = "none" )
         => ( /\ resp'.status = 200 /\ ~IsNull(resp'.body.user)
              /\ resp'.body.user.email = obs.input.email )
      /\ ( /\ obs.route = "GET /auth/me"
           /\ obs'.route = "POST /auth/logout" /\ obs'.client = obs.client )
         => ( /\ resp'.status = 200 /\ resp'.cookie = ClearCookie
              /\ IsNull(cookie'[obs'.client]) )
      /\ ( /\ obs.route = "POST /auth/logout"
           /\ obs'.route = "GET /auth/me" /\ obs'.client = obs.client )
         => ( /\ resp'.status = 200 /\ resp'.body = [user |-> Null]
              /\ obs'.fault = "none" ) ]_vars

\* C12: the role gate answers 401 'Not authenticated' when no principal is
\* attached, 403 'Forbidden' when the attached principal's role differs from
\* the required one, and otherwise continues to the next handler without a
\* response; an admin principal is refused by a gate that requires 'user'.
C12_RoleGateOutcomes ==
  obs.route = "requireRole"
  => /\ IsNull(obs.user)
          => ( /\ ~obs.handler /\ resp.status = 401
               /\ resp.body = [error |-> "Not authenticated"] )
     /\ (~IsNull(obs.user) /\ obs.user.role /= obs.input.role)
          => ( /\ ~obs.handler /\ resp.status = 403
               /\ resp.body = [error |-> "Forbidden"] )
     /\ (~IsNull(obs.user) /\ obs.user.role = obs.input.role)
          => (obs.handler /\ IsNull(resp.body))
     /\ IsNull(resp.cookie)

\* a gate requiring 'user' refused an admin principal
C12_Witness ==
  /\ obs.route = "requireRole" /\ obs.input.role = "user"
  /\ ~IsNull(obs.user) /\ obs.user.role = "admin"
  /\ resp.status = 403 /\ ~obs.handler

\* the routes behind requireAuth of middleware/auth.js
LoadingGateRoutes ==
  {"POST /products", "PUT /products/:id", "DELETE /products/:id"}

\* C13: when the token verifies and carries a principal id but the gate's
\* account lookup fails with a fault, the answer is 401 'Authentication
\* error', a message of its own; the cookie is not cleared, no principal is
\* attached and the handler does not run.
C13_GateFaultKeepsCookie ==
  (obs.route \in LoadingGateRoutes /\ obs.fault = "gate")
  => ( /\ TokenNamesAccount
       /\ resp.status = 401
       /\ resp.body = [error |-> "Authentication error"]
       /\ resp.body.error \notin {"Not authenticated",
            "Invalid or expired session", "Invalid session payload",
            "Session user not found"}
       /\ IsNull(resp.cookie) /\ cookie[obs.client] = obs.token
       /\ IsNull(obs.user) /\ ~obs.handler )

\* the gate's lookup failed for a token of an existing account
C13_Witness ==
  /\ obs.route = "PUT /products/:id" /\ obs.fault = "gate"
  /\ TokenNamesAccount /\ ~IsNull(obs.account)
  /\ resp.status = 401 /\ ~IsNull(cookie[obs.client])

\* C14: on every endpoint, a request with a correctly signed, unexpired token
\* of an existing account that meets an infrastructure fault is answered
\* without a cookie clear, and the client still holds its cookie.
C14_FaultNeverClearsCookie ==
  (obs.fault /= "none" /\ TokenNamesAccount /\ ~IsNull(obs.account))
  => (IsNull(resp.cookie) /\ cookie[obs.client] = obs.token)

\* C15: a signup that lacks one of email, username, password, mobile answers
\* 400 and creates no account; a signup with all four whose email is already
\* registered answers 400 with another error message and leaves the store
\* unchanged.
C15_SignupRejections ==
  [][ obs'.route = "POST /auth/signup"
      => /\ ~SignupComplete(obs'.input)
              => ( /\ resp'.status = 400
                   /\ resp'.body = [error |-> "Missing fields"]
                   /\ users' = users /\ nextId' = nextId )
         /\ ( /\ SignupComplete(obs'.input) /\ obs'.fault = "none"
              /\ \E i \in DOMAIN users : users[i].email = obs'.input.email )
              => ( /\ resp'.status = 400
                   /\ DOMAIN resp'.body = {"error"}
                   /\ resp'.body.error /= "Missing fields"
                   /\ users' = users /\ nextId' = nextId ) ]_vars

\* a signup with all four fields was refused for its registered email
C15_Witness ==
  /\ obs.route = "POST /auth/signup"
  /\ SignupComplete(obs.input) /\ obs.fault = "none"
  /\ \E i \in DOMAIN users : users[i].email = obs.input.email
  /\ resp.status = 400 /\ resp.body = [error |-> "Email already in use"]

\* the accounts of the store whose email and password a login body gives
Matching(store, body) ==
  IF LoginComplete(body)
  THEN { i \in DOMAIN store :
           /\ store[i].email = body.email
           /\ store[i].passwordHash = bcryptHash(body.password) }
  ELSE {}

\* C16: a login sets the session cookie exactly when the email is registered
\* and the password matches (and no fault occurs); the token then carries the
\* account's id, its stored role and its username, and the answer is 200 with
\* the safe projection. Every other login answers 400, 401 or 500, sets and
\* clears no cookie, and leaves the client's jar as it was. No login changes
\* the account store.
C16_LoginCookie ==
  [][ obs'.route = "POST /auth/login"
      => LET m == Matching(users, obs'.input)
             ok == m /= {} /\ obs'.fault = "none"
         IN
         /\ users' = users /\ nextId' = nextId
         /\ ok <=> ~IsNull(resp'.cookie)
         /\ ok => ( /\ resp'.status = 200
                    /\ resp'.cookie.op = "set"
                    /\ \E i \in m :
                         /\ resp'.cookie.value.uid = users[i]._id
                         /\ resp'.cookie.value.role = users[i].role
                         /\ resp'.cookie.value.username = users[i].username
                         /\ resp'.body =
                              [user |-> [id |-> users[i]._id,
                                         email |-> users[i].email,
                                         username |-> users[i].username,
                                         role |-> users[i].role]]
                    /\ cookie'[obs'.client] = resp'.cookie.value )
         /\ ~ok => ( /\ resp'.status \in {400, 401, 500}
                     /\ cookie' = cookie ) ]_vars

\* a login was refused while the client held a session cookie, and holds it
\* still
C16_Witness ==
  /\ obs.route = "POST /auth/login" /\ resp.status = 401
  /\ ~IsNull(obs.token) /\ cookie[obs.client] = obs.token

\* C17: the cookie written at login has httpOnly = true and path '/', is
\* secure exactly in production, and has same-site 'None' in production and
\* 'Lax' otherwise; every cookie clear names the same cookie and path '/'.
C17_CookieAttributes ==
  ~IsNull(resp.cookie)
  => /\ resp.cookie.name = "session"
     /\ resp.cookie.op = "set"
          => ( /\ obs.route = "POST /auth/login"
               /\ resp.cookie.options.httpOnly = TRUE
               /\ resp.cookie.options.path = "/"
               /\ resp.cookie.options.secure
                    = (obs.input.env = "production")
               /\ resp.cookie.options.sameSite
                    = IF obs.input.env = "production" THEN "None" ELSE "Lax" )
     /\ resp.cookie.op = "clear" => resp.cookie.path = "/"

\* a login in production wrote its cookie
C17_Witness ==
  /\ obs.route = "POST /auth/login"
  /\ ~IsNull(resp.cookie) /\ resp.cookie.op = "set"
  /\ obs.input.env = "production" /\ resp.cookie.options.secure = TRUE

\* C18: the gate of middleware/auth.js stops at its first failing step: an
\* absent cookie gives 401 'Not authenticated', an invalid token gives 401
\* with the cookie cleared, a verified payload without a principal id gives
\* 401 with the cookie cleared, each before the store is read (so no store
\* fault can show); a request gets either one 401 from the gate or one
\* continuation, and a principal is attached only when the gate continued.
C18_GateStopsAtFirstFailure ==
  obs.route \in LoadingGateRoutes
  => /\ IsNull(obs.token)
          => ( /\ resp = [status |-> 401, cookie |-> Null,
                          body |-> [error |-> "Not authenticated"]]
               /\ obs.fault = "none" )
     /\ TokenInvalid
          => ( /\ resp = [status |-> 401, cookie |-> ClearCookie,
                          body |-> [error |-> "Invalid or expired session"]]
               /\ obs.fault = "none" )
     /\ (TokenVerifies /\ "uid" \notin DOMAIN obs.token)
          => ( /\ resp = [status |-> 401, cookie |-> ClearCookie,
                          body |-> [error |-> "Invalid session payload"]]
               /\ obs.fault = "none" )
     /\ IsNull(obs.user) => (resp.status = 401 /\ ~obs.handler)
     /\ ~IsNull(obs.user)
          => ( /\ TokenNamesAccount /\ ~IsNull(obs.account)
               /\ obs.fault /= "gate" /\ resp.status /= 401
               /\ obs.route = "POST /products" => obs.handler )

\* the gate refused a verified payload that names no principal
C18_Witness ==
  /\ obs.route \in LoadingGateRoutes
  /\ TokenVerifies /\ "uid" \notin DOMAIN obs.token
  /\ resp.status = 401 /\ resp.cookie = ClearCookie /\ IsNull(obs.user)

\* C19: on the routes behind both gates, a request with no cookie or an
\* invalid token, and any request the authentication gate leaves without a
\* principal, is answered 401; 403 is answered only to an attached principal
\* whose role is not admin; the handler runs only for an attached admin
\* principal; and a request that does not reach the handler stores no file
\* and writes nothing.
C19_AuthBeforeRoleBeforeHandler ==
  [][ obs'.route \in AdminOnlyRoutes
      => /\ (IsNull(obs'.token) \/ TokenInvalid') => resp'.status = 401
         /\ IsNull(obs'.user) => resp'.status = 401
         /\ resp'.status = 403
              => (~IsNull(obs'.user) /\ obs'.user.role /= "admin")
         /\ obs'.handler
              => (~IsNull(obs'.user) /\ obs'.user.role = "admin")
         /\ ~obs'.handler
              => ( /\ resp'.status \in {401, 403}
                   /\ uploads' = uploads /\ products' = products
                   /\ users' = users /\ nextId' = nextId
                   /\ nextPid' = nextPid ) ]_vars

\* PUT /products/:id was refused by the authentication gate
C19_Witness ==
  /\ obs.route = "PUT /products/:id"
  /\ TokenInvalid /\ resp.status = 401 /\ ~obs.handler /\ uploads = {}

\* C20: for a request to an admin-only route that runs while its account is
\* updated or deleted, when the role gate has decided, exactly one account
\* read was made for the request and the role the gate decided on is one the
\* account held between the request's arrival and the decision, not one
\* taken from the token.
C20_RoleFromOneFreshRead ==
  (obs.phase = "done" /\ ~IsNull(obs.user))
  => (obs.reads = 1 /\ obs.user.role \in obs.held)

UniqueEmails ==
  \A i, j \in DOMAIN users : i /= j => users[i].email /= users[j].email

\* C21: no two accounts ever share an email, also when two creating requests
\* for the same unused email both pass the existence check before either
\* saves: a save creates an account only for an email no account has, a
\* creating request that is answered anything but 201 leaves the store as it
\* was, and so at most one of the two creates an account.
C21_EmailsStayUnique ==
  /\ []UniqueEmails
  /\ [][ \A k \in Slots :
           (obs[k].phase = "checked" /\ obs'[k].phase = "done")
           => IF obs'[k].status = 201
              THEN /\ \A i \in DOMAIN users :
                        users[i].email /= obs[k].body.email
                   /\ Cardinality(DOMAIN users') = Cardinality(DOMAIN users) + 1
              ELSE users' = users /\ nextId' = nextId ]_vars

\* a signup and a POST /users for the same unused email both passed the
\* existence check before either saved, and both have been answered
C21_Witness ==
  /\ obs["s1"].phase = "done" /\ obs["s2"].phase = "done"
  /\ obs["s1"].route /= obs["s2"].route
  /\ obs["s1"].body.email = obs["s2"].body.email
  /\ obs["s2"].racing
  /\ obs["s1"].status \in {201, 500} /\ obs["s2"].status \in {201, 500}
  /\ Cardinality({ i \in DOMAIN users :
                     users[i].email = obs["s1"].body.email }) <= 1

\* C22: logout writes nothing on the server, and a request to a protected
\* route that its gates stop writes nothing either; so a token stays good
\* after logout: a request that presents again, right after the logout, the
\* unexpired token the logout cleared is authenticated by the gate when the
\* account exists, with that account as its principal.
C22_LogoutRevokesNothing ==
  [][ /\ obs'.route = "POST /auth/logout"
           => ( /\ users' = users /\ nextId' = nextId
                /\ products' = products /\ nextPid' = nextPid
                /\ uploads' = uploads )
      /\ (obs'.route \in ProtectedRoutes /\ ~obs'.handler)
           => ( /\ users' = users /\ nextId' = nextId
                /\ products' = products /\ nextPid' = nextPid
                /\ uploads' = uploads )
      /\ ( /\ obs'.route \in ProtectedRoutes /\ obs'.replayed
           /\ TokenNamesAccount' /\ ~IsNull(obs'.account)
           /\ obs'.fault /= "gate" )
           => ( /\ obs'.token = obs.token
                /\ ~IsNull(obs'.user) /\ resp'.status /= 401
                /\ PrincipalId(obs'.user) = obs'.token.uid
                /\ obs'.route = "POST /products" => obs'.handler ) ]_vars

\* a token cleared by a logout was presented again and passed the gate of
\* middleware/auth.js
C22_Witness ==
  /\ obs.route = "POST /products" /\ obs.replayed
  /\ TokenNamesAccount /\ ~IsNull(obs.account)
  /\ ~IsNull(obs.user) /\ obs.handler

====
